---- MODULE Spec2Model ----
(***************************************************************************)
(* Model of distance_calculator.py: convert_to_world_coordinates and the   *)
(* Distances class (lru_cache'd _compute_distances, cached_property        *)
(* minimum).                                                               *)
(*                                                                         *)
(* Numbers.  World coordinates are modelled by integers (integer origin,   *)
(* spacing and direction entries), on which the float arithmetic of the    *)
(* code is exact.  A Euclidean distance d is carried as the record         *)
(* [inf |-> FALSE, sq |-> d*d]: the square root the k-d tree takes last is *)
(* strictly increasing on these values, so order, minimum and the test     *)
(* d = 0.0 are those of sq.  The float infinity is [inf |-> TRUE, sq |-> 0].*)
(***************************************************************************)
EXTENDS Integers, Sequences, FiniteSets, TLC

VARIABLES
    \* convert_to_world_coordinates, one call
    img, voxel_indices, world_points, tpc,
    \* Distances(p1, p2) and Distances(p2, p1), one access of minimum each
    dImg1, dImg2, fwd, rev,
    \* one tree.query(points_1, workers=-1) with its worker threads
    qPoints, qData, n_jobs, cursor, dd, qpc, qmin,
    \* Distances instances: alive[i] once constructed, the attributes img_1[i] and
    \* img_2[i], the lru_cache of _compute_distances (entries [key, arr], least
    \* recently used first) and the entry "minimum" of each instance's __dict__.
    \* bodyRuns[i] and minRuns[i] count the executions of the body of
    \* _compute_distances and of the min reduction for instance i; firstMin[i]
    \* records the first value minimum returned on i; mutations counts the
    \* assignments to img_1 / img_2; last is the operation that ran last and
    \* what it returned or raised.
    alive, img_1, img_2, lru, dict_minimum, bodyRuns, minRuns, firstMin, mutations, last

vars == <<img, voxel_indices, world_points, tpc,
          dImg1, dImg2, fwd, rev,
          qPoints, qData, n_jobs, cursor, dd, qpc, qmin,
          alive, img_1, img_2, lru, dict_minimum, bodyRuns, minRuns, firstMin,
          mutations, last>>

tvars == <<img, voxel_indices, world_points, tpc>>
dvars == <<dImg1, dImg2, fwd, rev>>
qvars == <<qPoints, qData, n_jobs, cursor, dd, qpc, qmin>>
ivars == <<alive, img_1, img_2, lru, dict_minimum, bodyRuns, minRuns, firstMin,
           mutations, last>>

(***************************************************************************)
(* Bounds                                                                  *)
(***************************************************************************)
\* shape of the voxel array, (z, y, x)
DimZ == 1
DimY == 2
DimX == 2
\* a mask has at most MaxVoxels non-zero voxels, with values in -1..MaxLabel
MaxVoxels == 2
MaxLabel == 1
\* number of CPUs workers=-1 may resolve to
MaxWorkers == 2
\* cap on the assignments to img_1 / img_2 after construction
MaxMutations == 1

(***************************************************************************)
(* Images                                                                  *)
(***************************************************************************)
Pos == (0 .. DimZ - 1) \X (0 .. DimY - 1) \X (0 .. DimX - 1)

Labels == (-1 .. MaxLabel) \ {0}

RECURSIVE SubsetsUpTo(_)
SubsetsUpTo(k) ==
    IF k = 0 THEN {{}}
    ELSE LET S == SubsetsUpTo(k - 1)
         IN  S \cup {s \cup {p} : s \in S, p \in Pos}

\* the array position of flat index i of a C-ordered (DimZ, DimY, DimX) array
Unravel(i) == <<i \div (DimY * DimX), (i \div DimX) % DimY, i % DimX>>

\* A voxel array is its C-ordered buffer, the entry of flat index i at i + 1.
\* MaskOf(f) holds f on its domain of positions and 0 elsewhere.
MaskOf(f) ==
    [i \in 1 .. DimZ * DimY * DimX |->
        IF Unravel(i - 1) \in DOMAIN f THEN f[Unravel(i - 1)] ELSE 0]

\* mask[z, y, x]
At(m, p) == m[p[1] * (DimY * DimX) + p[2] * DimX + p[3] + 1]

Masks == {MaskOf(f) : f \in UNION {[s -> Labels] : s \in SubsetsUpTo(MaxVoxels)}}

\* the masks of 0 and 1 whose voxels > 0 lie in the slice z = 0
BinaryMasks ==
    {MaskOf([p \in s |-> 1]) : s \in {t \in SubsetsUpTo(MaxVoxels) : \A p \in t : p[1] = 0}}

Identity == <<1, 0, 0, 0, 1, 0, 0, 0, 1>>
\* quarter turn about z; not symmetric
RotZ == <<0, -1, 0, 1, 0, 0, 0, 0, 1>>
\* x and y flipped (LPS / RAS)
FlipXY == <<-1, 0, 0, 0, -1, 0, 0, 0, 1>>

Geometry(o, s, d) == [origin |-> o, spacing |-> s, direction |-> d]

UnitGeometry == Geometry(<<0, 0, 0>>, <<1, 1, 1>>, Identity)
ShiftedGeometry == Geometry(<<10, 0, 0>>, <<2, 2, 2>>, Identity)

\* shifted, anisotropic and rotated
TurnedGeometry == Geometry(<<-1, 2, 3>>, <<1, 2, 3>>, RotZ)

Geometries ==
    {UnitGeometry, ShiftedGeometry, TurnedGeometry,
     Geometry(<<0, 5, 0>>, <<3, 1, 2>>, FlipXY)}

Image(g, m) == [origin |-> g.origin, spacing |-> g.spacing,
                direction |-> g.direction, mask |-> m]

Images == {Image(g, m) : g \in Geometries, m \in Masks}

(***************************************************************************)
(* convert_to_world_coordinates                                            *)
(***************************************************************************)
MaskTestNonZero(v) == v # 0
\* mask > 0
MaskTest(v) == v > 0

\* np.argwhere(mask): the positions of the true entries, in C order
RECURSIVE ArgWhereFrom(_, _)
ArgWhereFrom(m, i) ==
    IF i = DimZ * DimY * DimX THEN <<>>
    ELSE IF MaskTest(m[i + 1])
         THEN <<Unravel(i)>> \o ArgWhereFrom(m, i + 1)
         ELSE ArgWhereFrom(m, i + 1)

ArgWhere(m) == ArgWhereFrom(m, 0)

ColumnsKept(rows) == rows
\* rows[:, ::-1]
ColumnsReversed(rows) == [k \in 1 .. Len(rows) |-> <<rows[k][3], rows[k][2], rows[k][1]>>]

\* voxel_indices * spacing, spacing broadcast over the rows
Scale(rows, s) ==
    [k \in 1 .. Len(rows) |-> <<rows[k][1] * s[1], rows[k][2] * s[2], rows[k][3] * s[3]>>]

\* np.array(t).reshape(3, 3): row r, column c of the 9-tuple t
Reshape33(t) == [r \in 1 .. 3 |-> [c \in 1 .. 3 |-> t[3 * (r - 1) + c]]]

\* rows.T, a 3 x n array, as a function of (row, column)
Transpose(rows) == [r \in 1 .. 3 |-> [k \in 1 .. Len(rows) |-> rows[k][r]]]

\* d @ cols for a 3 x 3 d and a 3 x n cols
MatMul(d, cols, n) ==
    [r \in 1 .. 3 |-> [k \in 1 .. n |->
        d[r][1] * cols[1][k] + d[r][2] * cols[2][k] + d[r][3] * cols[3][k]]]

\* (3 x n).T back to n rows
TransposeBack(cols, n) == [k \in 1 .. n |-> <<cols[1][k], cols[2][k], cols[3][k]>>]

\* origin + rows, origin broadcast over the rows
AddOrigin(o, rows) ==
    [k \in 1 .. Len(rows) |-> <<o[1] + rows[k][1], o[2] + rows[k][2], o[3] + rows[k][3]>>]

VoxelIndices(im) == ColumnsReversed(ArgWhere(im.mask))

WorldPoints(im, vi) ==
    LET direction == Reshape33(im.direction)
        scaled_indices == Scale(vi, im.spacing)
    IN  AddOrigin(im.origin,
                  TransposeBack(MatMul(direction, Transpose(scaled_indices), Len(vi)),
                                Len(vi)))

convert_to_world_coordinates(im) == WorldPoints(im, VoxelIndices(im))

(***************************************************************************)
(* Distances: the k-d tree and its query                                   *)
(***************************************************************************)
Finite(n) == [inf |-> FALSE, sq |-> n]
Inf == [inf |-> TRUE, sq |-> 0]
\* the content of a slot of np.empty that no thread has written
Unwritten == [inf |-> FALSE, sq |-> -1]

\* a < b on distances
Less(a, b) == ~a.inf /\ (b.inf \/ a.sq < b.sq)

\* the p = 2 distance of two points (its square, see the head of the module)
Distance(p, q) ==
    Finite((p[1] - q[1]) * (p[1] - q[1]) + (p[2] - q[2]) * (p[2] - q[2])
           + (p[3] - q[3]) * (p[3] - q[3]))

\* cKDTree(points): at most leafsize = 16 points make one leaf holding them all
cKDTree(points) == [data |-> points, n |-> Len(points)]

\* the scan of a leaf for the nearest of its points k .. n, best so far given
RECURSIVE LeafScan(_, _, _, _)
LeafScan(tree, x, k, best) ==
    IF k > tree.n THEN best
    ELSE LET d == Distance(tree.data[k], x)
         IN  LeafScan(tree, x, k + 1, IF Less(d, best) THEN d ELSE best)

RECURSIVE LeafScanFarthest(_, _, _, _)
LeafScanFarthest(tree, x, k, best) ==
    IF k > tree.n THEN best
    ELSE LET d == Distance(tree.data[k], x)
         IN  LeafScanFarthest(tree, x, k + 1,
                              IF best.inf \/ Less(best, d) THEN d ELSE best)

QueryPointFarthest(tree, x) == LeafScanFarthest(tree, x, 1, Inf)
QueryPointSkipFirst(tree, x) == LeafScan(tree, x, 2, Inf)
\* tree.query of one point, k = 1: infinity when the tree holds no point
QueryPoint(tree, x) == LeafScan(tree, x, 1, Inf)

\* tree.query(xs) run by one thread: _thread_func(0, n)
Query(tree, xs) == [i \in 1 .. Len(xs) |-> QueryPoint(tree, xs[i])]

\* the body of _compute_distances
ComputeDistancesBody(i1, i2) ==
    LET points_1 == convert_to_world_coordinates(i1)
        points_2 == convert_to_world_coordinates(i2)
        tree == cKDTree(points_2)
    IN  Query(tree, points_1)

\* outcomes of a call: nothing yet, a returned value, a raised exception
None == [kind |-> "none", value |-> Inf]
Returned(v) == [kind |-> "value", value |-> v]
ValueError == [kind |-> "ValueError", value |-> Inf]

RECURSIVE MinFrom(_, _, _)
MinFrom(a, k, best) ==
    IF k > Len(a) THEN best
    ELSE MinFrom(a, k + 1, IF Less(a[k], best) THEN a[k] ELSE best)

ArrayMinOrInf(a) == Returned(MinFrom(a, 1, Inf))
ArrayFirst(a) == IF Len(a) = 0 THEN ValueError ELSE Returned(a[1])
\* ndarray.min(): a zero-size array has no minimum and raises ValueError
ArrayMin(a) == IF Len(a) = 0 THEN ValueError ELSE Returned(MinFrom(a, 2, a[1]))

(***************************************************************************)
(* Parts of the state a specification does not use                         *)
(***************************************************************************)
Inst == {"X", "Y"}

\* the value of an image variable that holds no image
NoImage == [origin |-> <<>>, spacing |-> <<>>, direction |-> <<>>, mask |-> <<>>]

IdleT == /\ img = NoImage
         /\ voxel_indices = <<>>
         /\ world_points = <<>>
         /\ tpc = "idle"

IdleD == /\ dImg1 = NoImage
         /\ dImg2 = NoImage
         /\ fwd = None
         /\ rev = None

IdleQ == /\ qPoints = <<>>
         /\ qData = <<>>
         /\ n_jobs = 0
         /\ cursor = <<>>
         /\ dd = <<>>
         /\ qpc = "idle"
         /\ qmin = None

IdleI == /\ alive = [i \in Inst |-> FALSE]
         /\ img_1 = [i \in Inst |-> NoImage]
         /\ img_2 = [i \in Inst |-> NoImage]
         /\ lru = <<>>
         /\ dict_minimum = [i \in Inst |-> None]
         /\ bodyRuns = [i \in Inst |-> 0]
         /\ minRuns = [i \in Inst |-> 0]
         /\ firstMin = [i \in Inst |-> None]
         /\ mutations = 0
         /\ last = [op |-> "none", inst |-> "X", out |-> None]

(***************************************************************************)
(* SpecTransform: convert_to_world_coordinates applied to every image      *)
(***************************************************************************)
InitTransform ==
    /\ img \in Images
    /\ voxel_indices = <<>>
    /\ world_points = <<>>
    /\ tpc = "start"
    /\ IdleD /\ IdleQ /\ IdleI

Convert ==
    /\ tpc = "start"
    /\ voxel_indices' = VoxelIndices(img)
    /\ world_points' = convert_to_world_coordinates(img)
    /\ tpc' = "done"
    /\ UNCHANGED <<img, dvars, qvars, ivars>>

NextTransform == Convert

SpecTransform == InitTransform /\ [][NextTransform]_vars

\* the positions of the voxels of a mask that count
Positive(m) == {p \in Pos : At(m, p) > 0}

\* origin + direction . (spacing (.) (x, y, z)) for the voxel stored at p = (z, y, x)
ExpectedPoint(im, p) ==
    LET x == p[3]
        y == p[2]
        z == p[1]
        o == im.origin
        s == im.spacing
        d == im.direction
    IN  << o[1] + d[1] * (s[1] * x) + d[2] * (s[2] * y) + d[3] * (s[3] * z),
           o[2] + d[4] * (s[1] * x) + d[5] * (s[2] * y) + d[6] * (s[3] * z),
           o[3] + d[7] * (s[1] * x) + d[8] * (s[2] * y) + d[9] * (s[3] * z) >>

Range(seq) == {seq[k] : k \in 1 .. Len(seq)}

SingleVoxel(p) == MaskOf([q \in {p} |-> 1])

\* C2: every voxel > 0 stored at (z, y, x) yields the world point
\* origin + direction . (spacing (.) (x, y, z)) and no other point is emitted; a
\* single voxel of index (i, j, k) under unit spacing, zero origin and identity
\* direction yields exactly (i, j, k); spacing (2,2,2), origin (10,0,0), identity
\* direction and voxel index (1,0,0) yield (12,0,0).
C2_WorldPointFormula ==
    tpc = "done" =>
        /\ \A p \in Positive(img.mask) : ExpectedPoint(img, p) \in Range(world_points)
        /\ \A k \in 1 .. Len(world_points) :
              /\ <<voxel_indices[k][3], voxel_indices[k][2], voxel_indices[k][1]>>
                     \in Positive(img.mask)
              /\ world_points[k] =
                     ExpectedPoint(img, <<voxel_indices[k][3], voxel_indices[k][2],
                                          voxel_indices[k][1]>>)
        /\ \A p \in Pos :
              img = Image(UnitGeometry, SingleVoxel(p))
                  => world_points = << <<p[3], p[2], p[1]>> >>
        /\ img = Image(ShiftedGeometry, SingleVoxel(<<0, 0, 1>>))
              => world_points = << <<12, 0, 0>> >>

C2_Witness ==
    /\ tpc = "done"
    /\ img = Image(ShiftedGeometry, SingleVoxel(<<0, 0, 1>>))
    /\ voxel_indices = << <<1, 0, 0>> >>
    /\ world_points = << <<12, 0, 0>> >>

\* p before q in the traversal of a C-ordered array
Before(p, q) ==
    \/ p[1] < q[1]
    \/ p[1] = q[1] /\ p[2] < q[2]
    \/ p[1] = q[1] /\ p[2] = q[2] /\ p[3] < q[3]

\* the k-th voxel > 0 of the traversal
KthPositive(m, k) ==
    CHOOSE p \in Positive(m) : Cardinality({q \in Positive(m) : Before(q, p)}) = k - 1

\* C3: the cloud has one point per voxel > 0 (none for zero or negative voxels),
\* in the traversal order of the mask, and is empty for an all-zero mask.
C3_OnePointPerPositiveVoxel ==
    tpc = "done" =>
        /\ Len(world_points) = Cardinality(Positive(img.mask))
        /\ \A k \in 1 .. Len(world_points) :
              world_points[k] = ExpectedPoint(img, KthPositive(img.mask, k))
        /\ (\A p \in Pos : At(img.mask, p) = 0) => world_points = <<>>

C3_Witness ==
    /\ tpc = "done"
    /\ \E p \in Pos : At(img.mask, p) < 0
    /\ Len(world_points) = 1

(***************************************************************************)
(* SpecDistance: minimum accessed once on Distances(p1, p2) and once on    *)
(* Distances(p2, p1), for every pair of binary masks and geometries        *)
(***************************************************************************)
DistanceGeometries == {UnitGeometry, TurnedGeometry}

DistanceImages == {Image(g, m) : g \in DistanceGeometries, m \in BinaryMasks}

\* the first access of minimum on a new instance holding images i1 and i2:
\* the lru_cache misses, the body runs, min() reduces its result
FirstMinimum(i1, i2) == ArrayMin(ComputeDistancesBody(i1, i2))

InitDistance ==
    /\ dImg1 \in DistanceImages
    /\ dImg2 \in DistanceImages
    /\ fwd = None
    /\ rev = None
    /\ IdleT /\ IdleQ /\ IdleI

AccessForward ==
    /\ fwd = None
    /\ fwd' = FirstMinimum(dImg1, dImg2)
    /\ UNCHANGED <<dImg1, dImg2, rev, tvars, qvars, ivars>>

AccessReverse ==
    /\ rev = None
    /\ rev' = FirstMinimum(dImg2, dImg1)
    /\ UNCHANGED <<dImg1, dImg2, fwd, tvars, qvars, ivars>>

NextDistance == AccessForward \/ AccessReverse

SpecDistance == InitDistance /\ [][NextDistance]_vars

\* the point cloud of an image, as a set
Cloud(im) == {ExpectedPoint(im, p) : p \in Positive(im.mask)}

SquaredNorm(a, b) ==
    (a[1] - b[1]) * (a[1] - b[1]) + (a[2] - b[2]) * (a[2] - b[2])
        + (a[3] - b[3]) * (a[3] - b[3])

PairDistances(A, B) == {SquaredNorm(a, b) : a \in A, b \in B}

\* the closest approach of two non-empty sets, over all pairs
BruteForceMinimum(A, B) ==
    CHOOSE d \in PairDistances(A, B) : \A e \in PairDistances(A, B) : d <= e

\* C1: for non-empty clouds A and B, minimum is the brute-force minimum of the
\* Euclidean distance over all pairs (a in A, b in B).
C1_MinimumIsBruteForce ==
    (fwd # None /\ Cloud(dImg1) # {} /\ Cloud(dImg2) # {}) =>
        fwd = Returned(Finite(BruteForceMinimum(Cloud(dImg1), Cloud(dImg2))))

C1_Witness ==
    /\ fwd.kind = "value"
    /\ Cardinality(Cloud(dImg1)) = 2
    /\ Cardinality(Cloud(dImg2)) = 2
    /\ fwd.value.sq > 0
    /\ \E a \in Cloud(dImg1), b \in Cloud(dImg2) : SquaredNorm(a, b) > fwd.value.sq

\* C7: the same non-empty image given twice has minimum exactly 0.0.
C7_SameImageIsZero ==
    (fwd # None /\ dImg1 = dImg2 /\ Cloud(dImg1) # {}) => fwd = Returned(Finite(0))

C7_Witness ==
    /\ fwd = Returned(Finite(0))
    /\ dImg1 = dImg2
    /\ Cardinality(Cloud(dImg1)) = 2

\* C8: with both clouds non-empty the two argument orders return the same
\* minimum; with exactly one cloud empty the two orders end differently (one
\* raises, the other returns); with both empty neither returns a value.
C8_SymmetricWhenNonEmpty ==
    (fwd # None /\ rev # None) =>
        /\ (Cloud(dImg1) # {} /\ Cloud(dImg2) # {})
              => (fwd.kind = "value" /\ rev.kind = "value" /\ fwd = rev)
        /\ ((Cloud(dImg1) = {}) # (Cloud(dImg2) = {})) => fwd # rev
        /\ (Cloud(dImg1) = {} /\ Cloud(dImg2) = {})
              => (fwd.kind # "value" /\ rev.kind # "value")

C8_Witness ==
    /\ fwd.kind = "value"
    /\ rev = fwd
    /\ dImg1 # dImg2
    /\ Cardinality(Cloud(dImg1)) = 2
    /\ Cardinality(Cloud(dImg2)) = 1
    /\ fwd.value.sq > 0

\* C10 as claimed: with either cloud empty, the access of minimum raises.
C10_RaisesWhenEitherEmpty ==
    (fwd # None /\ (Cloud(dImg1) = {} \/ Cloud(dImg2) = {})) => fwd.kind = "ValueError"

\* C10, amended: with the cloud of img_1 empty the access of minimum raises
\* ValueError (min() of a zero-size array); with the cloud of img_1 non-empty and
\* that of img_2 empty it raises nothing and returns infinity.
C10_RaisesWhenFirstEmpty ==
    fwd # None =>
        /\ Cloud(dImg1) = {} => fwd = ValueError
        /\ (Cloud(dImg1) # {} /\ Cloud(dImg2) = {}) => fwd = Returned(Inf)

C10_Witness ==
    /\ fwd = ValueError
    /\ rev = Returned(Inf)
    /\ Cloud(dImg1) = {}
    /\ Cloud(dImg2) # {}

(***************************************************************************)
(* The files Distances reads                                               *)
(***************************************************************************)
Paths == {"laa.segmentation.nii.gz", "pa.segmentation.nii.gz", "empty.nii.gz"}

\* the image each file holds
FileSystem ==
    [path \in Paths |->
        CASE path = "laa.segmentation.nii.gz" ->
                Image(UnitGeometry, MaskOf([p \in {<<0, 0, 0>>, <<0, 1, 1>>} |-> 1]))
          [] path = "pa.segmentation.nii.gz" ->
                Image(TurnedGeometry, SingleVoxel(<<0, 1, 0>>))
          [] OTHER -> Image(UnitGeometry, MaskOf(<<>>))]

\* sitk.ReadImage(path)
ReadImage(path) == FileSystem[path]

(***************************************************************************)
(* SpecQuery: tree.query(points_1, workers=-1) run by its threads, then    *)
(* the reduction of minimum                                                *)
(***************************************************************************)
\* the threads query() runs for n points on a machine of cpus processors:
\* min(n, cpus) of them, or the calling thread alone
NumThreads(n, cpus) == IF n < cpus THEN (IF n > 1 THEN n ELSE 1) ELSE cpus

ThreadStart(j, n, nj) == IF nj > 1 THEN ((j - 1) * n) \div nj ELSE 0
ThreadStop(j, n, nj) == IF nj > 1 THEN (j * n) \div nj ELSE n

SlotRelative(start, k) == k
\* the slot of dd a thread started at `start` writes for its k-th point
Slot(start, k) == start + k

InitQuery ==
    /\ \E i1 \in DistanceImages, path \in Paths, cpus \in 1 .. MaxWorkers :
          /\ qPoints = convert_to_world_coordinates(i1)
          /\ qData = convert_to_world_coordinates(ReadImage(path))
          /\ n_jobs = NumThreads(Len(qPoints), cpus)
    /\ cursor = [j \in 1 .. n_jobs |-> 0]
    /\ dd = [i \in 1 .. Len(qPoints) |-> Unwritten]
    /\ qpc = "query"
    /\ qmin = None
    /\ IdleT /\ IdleD /\ IdleI

\* thread j answers the next point of its range
ThreadStep(j) ==
    LET n == Len(qPoints)
        start == ThreadStart(j, n, n_jobs)
        k == cursor[j] + 1
    IN  /\ qpc = "query"
        /\ start + cursor[j] < ThreadStop(j, n, n_jobs)
        /\ dd' = [dd EXCEPT ![Slot(start, k)] = QueryPoint(cKDTree(qData), qPoints[start + k])]
        /\ cursor' = [cursor EXCEPT ![j] = k]
        /\ UNCHANGED <<qPoints, qData, n_jobs, qpc, qmin, tvars, dvars, ivars>>

\* every thread has ended: query() returns dd
Join ==
    /\ qpc = "query"
    /\ \A j \in 1 .. n_jobs :
          ThreadStart(j, Len(qPoints), n_jobs) + cursor[j] = ThreadStop(j, Len(qPoints), n_jobs)
    /\ qpc' = "joined"
    /\ UNCHANGED <<qPoints, qData, n_jobs, cursor, dd, qmin, tvars, dvars, ivars>>

\* minimum reduces the array query() returned
Reduce ==
    /\ qpc = "joined"
    /\ qmin' = ArrayMin(dd)
    /\ qpc' = "done"
    /\ UNCHANGED <<qPoints, qData, n_jobs, cursor, dd, tvars, dvars, ivars>>

NextQuery == (\E j \in 1 .. n_jobs : ThreadStep(j)) \/ Join \/ Reduce

SpecQuery == InitQuery /\ [][NextQuery]_vars

\* the distance from x to the nearest point of the set S
NearestInSet(x, S) ==
    IF S = {} THEN Inf
    ELSE Finite(CHOOSE d \in {SquaredNorm(x, b) : b \in S} :
                    \A e \in {SquaredNorm(x, b) : b \in S} : d <= e)

\* C9: whatever the number of threads and the order of their steps, query()
\* returns for each point of A its distance to the nearest point of B, and the
\* minimum is the least of these: both are functions of A and B alone.
C9_ResultIndependentOfWorkers ==
    /\ qpc \in {"joined", "done"} =>
          /\ Len(dd) = Len(qPoints)
          /\ \A i \in 1 .. Len(qPoints) : dd[i] = NearestInSet(qPoints[i], Range(qData))
    /\ qpc = "done" =>
          qmin = IF qPoints = <<>> THEN ValueError
                 ELSE Returned(CHOOSE d \in {NearestInSet(x, Range(qData)) : x \in Range(qPoints)} :
                          \A e \in {NearestInSet(x, Range(qData)) : x \in Range(qPoints)} :
                              ~Less(e, d))

C9_Witness ==
    /\ qpc = "done"
    /\ n_jobs = 2
    /\ Len(qPoints) = 2
    /\ dd[1] # dd[2]
    /\ qmin = Returned(dd[2])
    /\ ~dd[2].inf

(***************************************************************************)
(* Spec: Distances instances, the lru_cache of _compute_distances (one     *)
(* cache for the class, keyed by self) and the cached_property minimum     *)
(* (stored in the instance's __dict__)                                     *)
(***************************************************************************)
\* @lru_cache(maxsize=1)
lru_maxsize == 1

CacheHit(cache, key) == \E k \in 1 .. Len(cache) : cache[k].key = key

CacheIndex(cache, key) == CHOOSE k \in 1 .. Len(cache) : cache[k].key = key

RECURSIVE Without(_, _)
Without(cache, key) ==
    IF cache = <<>> THEN <<>>
    ELSE IF Head(cache).key = key THEN Tail(cache)
         ELSE <<Head(cache)>> \o Without(Tail(cache), key)

\* a hit makes the entry the most recently used
CacheTouch(cache, key) == Append(Without(cache, key), cache[CacheIndex(cache, key)])

\* a miss stores the result, evicting the least recently used entry of a full cache
CachePut(cache, key, arr) ==
    Append(IF Len(cache) >= lru_maxsize THEN Tail(cache) ELSE cache,
           [key |-> key, arr |-> arr])

\* self._compute_distances(): the array returned, the cache afterwards, and
\* whether the body ran
CallComputeDistances(i) ==
    IF CacheHit(lru, i)
    THEN [arr |-> lru[CacheIndex(lru, i)].arr, cache |-> CacheTouch(lru, i), ran |-> FALSE]
    ELSE LET arr == ComputeDistancesBody(img_1[i], img_2[i])
         IN  [arr |-> arr, cache |-> CachePut(lru, i, arr), ran |-> TRUE]

\* one more execution of a body: the counters tell 0, 1 and more than once apart
Counted(c) == IF c > 1 THEN c ELSE c + 1

StoreNothing(d, i, out) == d
\* cached_property: cache[attrname] = val
StoreAttribute(d, i, out) == [d EXCEPT ![i] = out]

Init ==
    /\ alive = [i \in Inst |-> FALSE]
    /\ img_1 = [i \in Inst |-> NoImage]
    /\ img_2 = [i \in Inst |-> NoImage]
    /\ lru = <<>>
    /\ dict_minimum = [i \in Inst |-> None]
    /\ bodyRuns = [i \in Inst |-> 0]
    /\ minRuns = [i \in Inst |-> 0]
    /\ firstMin = [i \in Inst |-> None]
    /\ mutations = 0
    /\ last = [op |-> "none", inst |-> "X", out |-> None]
    /\ IdleT /\ IdleD /\ IdleQ

\* i = Distances(path_1, path_2)
Construct(i, path_1, path_2) ==
    /\ ~alive[i]
    /\ alive' = [alive EXCEPT ![i] = TRUE]
    /\ img_1' = [img_1 EXCEPT ![i] = ReadImage(path_1)]
    /\ img_2' = [img_2 EXCEPT ![i] = ReadImage(path_2)]
    /\ last' = [op |-> "__init__", inst |-> i, out |-> None]
    /\ UNCHANGED <<lru, dict_minimum, bodyRuns, minRuns, firstMin, mutations,
                   tvars, dvars, qvars>>

\* i._compute_distances()
ComputeDistances(i) ==
    LET call == CallComputeDistances(i)
    IN  /\ alive[i]
        /\ lru' = call.cache
        /\ bodyRuns' = [bodyRuns EXCEPT ![i] = IF call.ran THEN Counted(@) ELSE @]
        /\ last' = [op |-> "_compute_distances", inst |-> i, out |-> None]
        /\ UNCHANGED <<alive, img_1, img_2, dict_minimum, minRuns, firstMin, mutations,
                       tvars, dvars, qvars>>

\* i.minimum: the value in the instance's __dict__ when there is one; otherwise
\* the function runs, and its value is stored unless it raises
AccessMinimum(i) ==
    LET call == CallComputeDistances(i)
        out == ArrayMin(call.arr)
    IN  /\ alive[i]
        /\ IF dict_minimum[i] # None
           THEN /\ last' = [op |-> "minimum", inst |-> i, out |-> dict_minimum[i]]
                /\ UNCHANGED <<lru, dict_minimum, bodyRuns, minRuns, firstMin>>
           ELSE /\ lru' = call.cache
                /\ bodyRuns' = [bodyRuns EXCEPT ![i] = IF call.ran THEN Counted(@) ELSE @]
                /\ minRuns' = [minRuns EXCEPT ![i] = Counted(@)]
                /\ dict_minimum' = IF out.kind = "value"
                                   THEN StoreAttribute(dict_minimum, i, out)
                                   ELSE dict_minimum
                /\ firstMin' = IF out.kind = "value" /\ firstMin[i] = None
                               THEN [firstMin EXCEPT ![i] = out] ELSE firstMin
                /\ last' = [op |-> "minimum", inst |-> i, out |-> out]
        /\ UNCHANGED <<alive, img_1, img_2, mutations, tvars, dvars, qvars>>

\* i.img_1 = sitk.ReadImage(path) or i.img_2 = sitk.ReadImage(path), after
\* construction, with another image than the one held
SetImage(i, first, path) ==
    /\ alive[i]
    /\ ReadImage(path) # (IF first THEN img_1[i] ELSE img_2[i])
    /\ mutations < MaxMutations
    /\ mutations' = mutations + 1
    /\ img_1' = IF first THEN [img_1 EXCEPT ![i] = ReadImage(path)] ELSE img_1
    /\ img_2' = IF first THEN img_2 ELSE [img_2 EXCEPT ![i] = ReadImage(path)]
    /\ last' = [op |-> "setattr", inst |-> i, out |-> None]
    /\ UNCHANGED <<alive, lru, dict_minimum, bodyRuns, minRuns, firstMin,
                   tvars, dvars, qvars>>

Next ==
    \E i \in Inst :
        \/ \E path_1 \in Paths, path_2 \in Paths : Construct(i, path_1, path_2)
        \/ ComputeDistances(i)
        \/ AccessMinimum(i)
        \/ \E first \in BOOLEAN, path \in Paths : SetImage(i, first, path)

Spec == Init /\ [][Next]_vars

\* C4: once an access of minimum on an instance has returned a value, every
\* later access of minimum on that instance returns that value, whatever was
\* accessed, called or assigned in between.
C4_MinimumNeverChanges ==
    \A i \in Inst :
        (firstMin[i] # None /\ last.op = "minimum" /\ last.inst = i) => last.out = firstMin[i]

C4_Witness ==
    /\ last.op = "minimum"
    /\ last.inst = "X"
    /\ last.out = firstMin["X"]
    /\ firstMin["X"] # None
    /\ minRuns["X"] = 1
    /\ mutations > 0
    /\ ~CacheHit(lru, "X")
    /\ FirstMinimum(img_1["X"], img_2["X"]) # firstMin["X"]

\* C5 as claimed: for every instance the body of _compute_distances runs at most
\* once and the min reduction of minimum runs at most once.
C5_BodiesRunAtMostOnce ==
    \A i \in Inst : bodyRuns[i] <= 1 /\ minRuns[i] <= 1

\* what the lru_cache holds for instance i
CachedArray(cache, i) ==
    IF CacheHit(cache, i) THEN [has |-> TRUE, arr |-> cache[CacheIndex(cache, i)].arr]
    ELSE [has |-> FALSE, arr |-> <<>>]

\* C6 as claimed: no operation on an instance changes what is cached for another
\* instance, neither its distance array nor its minimum.
C6_CachesIndependent ==
    [][\A x \in Inst :
          last'.inst # x =>
              /\ CachedArray(lru', x) = CachedArray(lru, x)
              /\ dict_minimum'[x] = dict_minimum[x]]_vars

====
